---- MODULE Spec2Model ----
(***************************************************************************)
(* OmniAD: the detector lifecycle (fit / predict_score / predict / save /  *)
(* load), the sklearn adapter template and the factory, as a state machine.*)
(*                                                                         *)
(* Representation.  A Python dict is a function with a string domain; an   *)
(* instance is [cls, dict] where dict is its __dict__.  None is <<>> and a *)
(* non-None optional value v is <<v>>.  Contamination is held in units of  *)
(* 1/Scale and a threshold in units of 1/Scale of a score unit, so that    *)
(* the linear-interpolation quantile stays exact in integer arithmetic.    *)
(* An input X is a sequence of one-feature samples; NaN marks a non-finite *)
(* sample.  A path is the sequence <<stem, ext1, ext2, ...>>.              *)
(***************************************************************************)
EXTENDS Integers, Sequences, FiniteSets, TLC

\* ------------------------------------------------------------------ bounds
MaxLen == 2

\* ------------------------------------------------- representation helpers
Scale == 10
DefaultContamination == 1
DefaultEstimators == 100

None == <<>>
Some(v) == <<v>>
Val(o) == o[1]

EmptyDict == [k \in {} |-> 0]
DictUpdate(a, b) ==
    [k \in DOMAIN a \cup DOMAIN b |-> IF k \in DOMAIN b THEN b[k] ELSE a[k]]
DictPop(a, k) == [x \in DOMAIN a \ {k} |-> a[x]]
DictGet(a, k, default) == IF k \in DOMAIN a THEN a[k] ELSE default

Samples == {0, 1}
NaN == 0 - 1
Inputs == UNION {[1..n -> Samples \cup {NaN}] : n \in 0..MaxLen}

\* An operation's outcome: the exception raised ("ok" for a normal return)
\* and the value or the new object state it produces.
Ok(v) == [exc |-> "ok", val |-> v]
Raise(e, v) == [exc |-> e, val |-> v]

\* ------------------------------------------------ utils/validation.py
\* validate_input: 1-D input becomes n samples of one feature; check_array
\* rejects NaN/Inf and an input with no sample (wrapped as DataFormatError).
validate_input(X) ==
    IF Len(X) = 0 \/ (\E i \in DOMAIN X : X[i] = NaN)
    THEN Raise("DataFormatError", <<>>)
    ELSE Ok(X)

\* ------------------------------------------------ the sklearn backend
\* IsolationForest as the adapter sees it: a constructor that rejects
\* unknown keywords, fit() that validates its parameters before training,
\* score_samples() and decision_function() = score_samples() - offset_.
BackendParamNames == {"n_estimators", "n_jobs", "random_state", "verbose"}

BackendNew(bcls, init_params) ==
    IF DOMAIN init_params \subseteq BackendParamNames
    THEN Ok([cls |-> bcls, params |-> init_params, fitted |-> FALSE, model |-> <<>>])
    ELSE Raise("TypeError", <<>>)

\* What training leaves in the estimator: the native score of each possible
\* sample, the opposite of how isolated it is among the training samples
\* (lower = more abnormal, never positive), in score units.
Train(X_valid) ==
    [x \in Samples |-> 0 - Cardinality({i \in DOMAIN X_valid : X_valid[i] # x})]

BackendFit(b, X_valid) ==
    IF DictGet(b.params, "n_estimators", DefaultEstimators) < 1
    THEN Raise("InvalidParameterError", b)
    ELSE Ok([b EXCEPT !.fitted = TRUE, !.model = Train(X_valid)])

\* offset_ of a forest built with contamination="auto" is -0.5 score units;
\* scores are reported in units of 1/Scale.
BackendOffset == 0 - (Scale \div 2)

score_samples(b, X_valid) ==
    IF ~b.fitted THEN Raise("NotFittedError", <<>>)
    ELSE Ok([i \in DOMAIN X_valid |-> Scale * b.model[X_valid[i]]])

decision_function(b, X_valid) ==
    IF ~b.fitted THEN Raise("NotFittedError", <<>>)
    ELSE Ok([i \in DOMAIN X_valid |-> score_samples(b, X_valid).val[i] - BackendOffset])

\* The methods hasattr() finds on a backend: the forest has both scoring
\* methods; DecisionOnly stands for an estimator with decision_function but
\* no score_samples, FitOnly for one with neither.
BackendMethods(bcls) ==
    CASE bcls = "IsolationForest" -> {"fit", "score_samples", "decision_function"}
      [] bcls = "DecisionOnly" -> {"fit", "decision_function"}
      [] OTHER -> {"fit"}

\* ------------------------------------------------ adapter classes
\* Class-level attributes (ClassVars) of the adapters built on the sklearn
\* template.  MappedAdapter stands for a subclass that renames one of its own
\* hyperparameters through _param_mapping, DecisionOnlyAdapter and
\* FitOnlyAdapter for subclasses over a backend without score_samples and
\* without any scoring method, PlainAdapter for one with _invert_score = False.
Classes ==
    {"BaseSklearnAdapter", "IsolationForestAdapter", "MappedAdapter",
     "DecisionOnlyAdapter", "FitOnlyAdapter", "PlainAdapter"}

backend_cls(cls) ==
    CASE cls = "BaseSklearnAdapter" -> None
      [] cls = "DecisionOnlyAdapter" -> Some("DecisionOnly")
      [] cls = "FitOnlyAdapter" -> Some("FitOnly")
      [] OTHER -> Some("IsolationForest")

param_mapping(cls) ==
    IF cls = "MappedAdapter" THEN [n_trees |-> "n_estimators"] ELSE EmptyDict

invert_score(cls) == cls # "PlainAdapter"

\* BaseDetector.__init__
BaseDetector_init(contamination) ==
    [contamination |-> contamination,
     _backend_model |-> None,
     threshold_ |-> None,
     _is_fitted |-> FALSE]

\* BaseSklearnAdapter.__init__(contamination=0.1, **kwargs)
BaseSklearnAdapter_init(contamination, kwargs) ==
    DictUpdate(BaseDetector_init(contamination),
               [backend_options |-> DictGet(kwargs, "backend_options", EmptyDict),
                kwargs |-> kwargs])

\* IsolationForestAdapter.__init__(n_estimators=100, contamination=0.1,
\*                                 n_jobs=-1, random_state=None, **kwargs)
IsolationForestAdapter_init(args) ==
    LET n_estimators == DictGet(args, "n_estimators", DefaultEstimators)
        n_jobs == DictGet(args, "n_jobs", 0 - 1)
        random_state == DictGet(args, "random_state", None)
        contamination == DictGet(args, "contamination", DefaultContamination)
        named == {"n_estimators", "contamination", "n_jobs", "random_state"}
        rest == [k \in DOMAIN args \ named |-> args[k]]
    IN  DictUpdate([n_estimators |-> n_estimators,
                    n_jobs |-> n_jobs,
                    random_state |-> random_state],
                   BaseSklearnAdapter_init(
                       contamination,
                       DictUpdate([n_estimators |-> n_estimators,
                                   n_jobs |-> n_jobs,
                                   random_state |-> random_state], rest)))

\* A subclass declaring its own hyperparameter n_trees, renamed for the
\* backend by _param_mapping; every other keyword goes to **kwargs.
MappedAdapter_init(args) ==
    LET contamination == DictGet(args, "contamination", DefaultContamination)
        rest == [k \in DOMAIN args \ {"n_trees", "contamination"} |-> args[k]]
    IN  DictUpdate([n_trees |-> DictGet(args, "n_trees", DefaultEstimators)],
                   BaseSklearnAdapter_init(contamination, rest))

New(cls, args) ==
    [cls |-> cls,
     dict |-> CASE cls = "IsolationForestAdapter" -> IsolationForestAdapter_init(args)
                [] cls = "MappedAdapter" -> MappedAdapter_init(args)
                [] OTHER -> BaseSklearnAdapter_init(
                                DictGet(args, "contamination", DefaultContamination),
                                DictPop(args, "contamination"))]

SetAttr(self, name, v) == [self EXCEPT !.dict = DictUpdate(@, [k \in {name} |-> v])]
hasattr(self, name) == name \in DOMAIN self.dict

\* ------------------------------------------------ sklearn_adapter.py
\* _fit_backend, lines 49-63: the constructor arguments of the backend.
init_params_of(self) ==
    LET copied == DictPop(self.dict.kwargs, "backend_options")
        mapping == param_mapping(self.cls)
        \* the backend names whose local attribute exists on the instance
        targets == {mapping[l] : l \in {l \in DOMAIN mapping : hasattr(self, l)}}
        source(t) == CHOOSE l \in DOMAIN mapping : mapping[l] = t /\ hasattr(self, l)
        mapped == [t \in targets |-> self.dict[source(t)]]
    IN  DictUpdate(DictUpdate(copied, mapped), self.dict.backend_options)

\* _fit_backend as it would be if it kept a backend it already holds and
\* trained a new one only on a detector without backend.
fit_backend_keeps_backend(self, X) ==
    LET v == validate_input(X) IN
    IF v.exc # "ok" THEN Raise(v.exc, self)
    ELSE IF backend_cls(self.cls) = None THEN Raise("ConfigError", self)
    ELSE IF self.dict._backend_model # None /\ Val(self.dict._backend_model).fitted
    THEN Ok(self)
    ELSE LET b == BackendNew(Val(backend_cls(self.cls)), init_params_of(self)) IN
         IF b.exc # "ok" THEN Raise(b.exc, self)
         ELSE LET f == BackendFit(b.val, v.val) IN
              Raise(f.exc, SetAttr(self, "_backend_model", Some(f.val)))

\* _fit_backend: the new state of the adapter and the exception raised.
fit_backend(self, X) ==
    LET v == validate_input(X) IN
    IF v.exc # "ok" THEN Raise(v.exc, self)
    ELSE IF backend_cls(self.cls) = None THEN Raise("ConfigError", self)
    ELSE LET b == BackendNew(Val(backend_cls(self.cls)), init_params_of(self)) IN
         IF b.exc # "ok" THEN Raise(b.exc, self)
         ELSE LET f == BackendFit(b.val, v.val) IN
              Raise(f.exc, SetAttr(self, "_backend_model", Some(f.val)))

\* The backend_model property.
backend_model(self) ==
    IF self.dict._backend_model = None
    THEN Raise("ModelNotFittedError", <<>>)
    ELSE Ok(Val(self.dict._backend_model))

Negate(scores) == [i \in DOMAIN scores |-> 0 - scores[i]]

\* predict_score as it would be if it tried decision_function first.
predict_score_decision_first(self, X) ==
    LET v == validate_input(X)
        m == backend_model(self)
    IN  IF v.exc # "ok" THEN Raise(v.exc, <<>>)
        ELSE IF m.exc # "ok" THEN Raise(m.exc, <<>>)
        ELSE LET methods == BackendMethods(m.val.cls)
                 s == IF "decision_function" \in methods
                      THEN decision_function(m.val, v.val)
                      ELSE IF "score_samples" \in methods
                      THEN score_samples(m.val, v.val)
                      ELSE Raise("ConfigError", <<>>)
             IN  IF s.exc # "ok" THEN s
                 ELSE IF invert_score(self.cls) THEN Ok(Negate(s.val))
                 ELSE Ok(s.val)

\* predict_score: the exception raised, or the anomaly scores.
predict_score(self, X) ==
    LET v == validate_input(X)
        m == backend_model(self)
    IN  IF v.exc # "ok" THEN Raise(v.exc, <<>>)
        ELSE IF m.exc # "ok" THEN Raise(m.exc, <<>>)
        ELSE LET methods == BackendMethods(m.val.cls)
                 s == IF "score_samples" \in methods
                      THEN score_samples(m.val, v.val)
                      ELSE IF "decision_function" \in methods
                      THEN decision_function(m.val, v.val)
                      ELSE Raise("ConfigError", <<>>)
             IN  IF s.exc # "ok" THEN s
                 ELSE IF invert_score(self.cls) THEN Ok(Negate(s.val))
                 ELSE Ok(s.val)

\* ------------------------------------------------ core/base.py
\* _set_seed: a no-op hook.
set_seed(self) == self

\* The k-th smallest element (1-based) of a non-empty sequence of numbers.
Kth(a, k) ==
    CHOOSE v \in {a[i] : i \in DOMAIN a} :
        /\ Cardinality({i \in DOMAIN a : a[i] < v}) < k
        /\ k <= Cardinality({i \in DOMAIN a : a[i] <= v})

\* np.quantile(a, q) with q = qnum/Scale, linear interpolation between the
\* two order statistics around position (n-1)*q; q outside [0,1] raises.
quantile(a, qnum) ==
    IF qnum < 0 \/ qnum > Scale THEN Raise("ValueError", 0)
    ELSE LET n == Len(a)
             h == (n - 1) * qnum
             lo == (h \div Scale) + 1
             hi == IF lo < n THEN lo + 1 ELSE n
             frac == h % Scale
         IN  Ok(Kth(a, lo) + (frac * (Kth(a, hi) - Kth(a, lo))) \div Scale)

\* fit as it would be with the fitted flag raised right after _fit_backend,
\* before the threshold is computed.
fit_flag_before_threshold(self, X) ==
    LET fb == fit_backend(set_seed(self), X) IN
    IF fb.exc # "ok" THEN fb
    ELSE LET marked == SetAttr(fb.val, "_is_fitted", TRUE)
             train_scores == predict_score(marked, X)
         IN  IF train_scores.exc # "ok" THEN Raise(train_scores.exc, marked)
             ELSE LET q == quantile(train_scores.val, Scale - marked.dict.contamination) IN
                  IF q.exc # "ok" THEN Raise(q.exc, marked)
                  ELSE Ok(SetAttr(marked, "threshold_", Some(q.val)))

\* fit as it would be if it took the contamination quantile of the training
\* scores instead of the (1 - contamination) quantile.
fit_contamination_quantile(self, X) ==
    LET fb == fit_backend(set_seed(self), X) IN
    IF fb.exc # "ok" THEN fb
    ELSE LET train_scores == predict_score(fb.val, X) IN
         IF train_scores.exc # "ok" THEN Raise(train_scores.exc, fb.val)
         ELSE LET q == quantile(train_scores.val, fb.val.dict.contamination) IN
              IF q.exc # "ok" THEN Raise(q.exc, fb.val)
              ELSE Ok(SetAttr(SetAttr(fb.val, "threshold_", Some(q.val)),
                              "_is_fitted", TRUE))

\* fit: the new state of the detector and the exception raised.
fit(self, X) ==
    LET fb == fit_backend(set_seed(self), X) IN
    IF fb.exc # "ok" THEN fb
    ELSE LET train_scores == predict_score(fb.val, X) IN
         IF train_scores.exc # "ok" THEN Raise(train_scores.exc, fb.val)
         ELSE LET q == quantile(train_scores.val, Scale - fb.val.dict.contamination) IN
              IF q.exc # "ok" THEN Raise(q.exc, fb.val)
              ELSE Ok(SetAttr(SetAttr(fb.val, "threshold_", Some(q.val)),
                              "_is_fitted", TRUE))

\* The comparison as it would be if it were not strict.
Binarize_nonstrict(scores, current_threshold) ==
    [i \in DOMAIN scores |-> IF scores[i] >= current_threshold THEN 1 ELSE 0]

\* (scores > current_threshold).astype(int)
Binarize(scores, current_threshold) ==
    [i \in DOMAIN scores |-> IF scores[i] > current_threshold THEN 1 ELSE 0]

\* predict as it would be without its fitted-flag guard.
predict_unguarded(self, X, threshold) ==
    LET scores == predict_score(self, X)
        current_threshold ==
            IF threshold # None THEN threshold ELSE self.dict.threshold_
    IN  IF scores.exc # "ok" THEN scores
        ELSE IF current_threshold = None THEN Raise("ValueError", <<>>)
        ELSE Ok(Binarize(scores.val, Val(current_threshold)))

\* predict: threshold is None or Some(t).
predict(self, X, threshold) ==
    IF ~self.dict._is_fitted THEN Raise("ModelNotFittedError", <<>>)
    ELSE LET scores == predict_score(self, X)
             current_threshold ==
                 IF threshold # None THEN threshold ELSE self.dict.threshold_
         IN  IF scores.exc # "ok" THEN scores
             ELSE IF current_threshold = None THEN Raise("ValueError", <<>>)
             ELSE Ok(Binarize(scores.val, Val(current_threshold)))

\* ------------------------------------------------ paths and archives
Stem == "m"
Exts == {".zip", ".pkl"}
UserPaths == {<<Stem>>} \cup {<<Stem, e>> : e \in Exts}
AllPaths == UserPaths \cup {Append(p, ".zip") : p \in UserPaths}
ArchivePath == <<Stem, ".zip">>

\* os.path.splitext(p)[0]
splitext0(p) == IF Len(p) > 1 THEN SubSeq(p, 1, Len(p) - 1) ELSE p
exists(files, p) == files[p] # None
Version == "0.1.0"

\* _save_backend as it would be if it wrote an empty estimator for a
\* detector that holds no backend, instead of going through backend_model.
save_backend_placeholder(self) ==
    IF self.dict._backend_model = None
    THEN Ok([cls |-> "IsolationForest", params |-> EmptyDict,
             fitted |-> FALSE, model |-> <<>>])
    ELSE Ok(Val(self.dict._backend_model))

\* _save_backend(path): joblib.dump(self.backend_model, path/model.joblib)
save_backend(self) ==
    LET m == backend_model(self) IN
    IF m.exc # "ok" THEN m ELSE Ok(m.val)

\* A directory or an archive: the mapping from member name to content.
WriteFile(dir, member, content) == DictUpdate(dir, [k \in {member} |-> content])
Members == {"metadata.json", "backend/model.joblib", "attributes.pkl"}

\* tempfile.TemporaryDirectory(): __enter__ makes a new, empty directory
\* (named by a number not in use), __exit__ removes it, on return and on raise.
TemporaryDirectory(tmps) == CHOOSE n \in 1..(Cardinality(tmps) + 1) : n \notin tmps
cleanup(tmps, name) == tmps \ {name}

\* What can go wrong while save writes a file of its own: nothing, or an
\* OSError writing the named part.
SaveFailures == {"none", "metadata.json", "attributes.pkl"}

\* The with-block of save as it would be if it cleared the backend handle on
\* the instance itself, instead of on a copy of its attributes.
save_body_clears_backend(self, base_name, files, fail) ==
    LET tmp_dir == EmptyDict
        meta == [class_name |-> self.cls,
                 contamination |-> self.dict.contamination,
                 threshold |-> self.dict.threshold_,
                 version |-> Version]
        with_meta == WriteFile(tmp_dir, "metadata.json", meta)
        b == save_backend(self)
        cleared == SetAttr(self, "_backend_model", None)
    IN  IF fail = "metadata.json"
        THEN Raise("OSError", [self |-> self, files |-> files])
        ELSE IF b.exc # "ok"
        THEN Raise(b.exc, [self |-> self, files |-> files])
        ELSE LET with_backend == WriteFile(with_meta, "backend/model.joblib", b.val)
                 state == DictPop(cleared.dict, "_backend_model")
             IN  IF fail = "attributes.pkl"
                 THEN Raise("OSError", [self |-> cleared, files |-> files])
                 ELSE Ok([self |-> cleared,
                          files |-> [files EXCEPT ![Append(base_name, ".zip")] =
                                 Some(WriteFile(with_backend, "attributes.pkl", state))]])

\* The with-block of save as it would be if it packed the archive before
\* writing the attributes part.
save_body_packs_early(self, base_name, files, fail) ==
    LET tmp_dir == EmptyDict
        meta == [class_name |-> self.cls,
                 contamination |-> self.dict.contamination,
                 threshold |-> self.dict.threshold_,
                 version |-> Version]
        with_meta == WriteFile(tmp_dir, "metadata.json", meta)
        b == save_backend(self)
    IN  IF fail = "metadata.json"
        THEN Raise("OSError", [self |-> self, files |-> files])
        ELSE IF b.exc # "ok"
        THEN Raise(b.exc, [self |-> self, files |-> files])
        ELSE LET with_backend == WriteFile(with_meta, "backend/model.joblib", b.val)
                 packed == [files EXCEPT ![Append(base_name, ".zip")] = Some(with_backend)]
             IN  IF fail = "attributes.pkl"
                 THEN Raise("OSError", [self |-> self, files |-> packed])
                 ELSE Ok([self |-> self, files |-> packed])

\* The with-block of save, lines 174-196: the parts are written into tmp_dir
\* one after the other, then tmp_dir is packed at base_name + ".zip".
save_body(self, base_name, files, fail) ==
    LET tmp_dir == EmptyDict
        meta == [class_name |-> self.cls,
                 contamination |-> self.dict.contamination,
                 threshold |-> self.dict.threshold_,
                 version |-> Version]
        with_meta == WriteFile(tmp_dir, "metadata.json", meta)
        b == save_backend(self)
    IN  IF fail = "metadata.json"
        THEN Raise("OSError", [self |-> self, files |-> files])
        ELSE IF b.exc # "ok"
        THEN Raise(b.exc, [self |-> self, files |-> files])
        ELSE LET with_backend == WriteFile(with_meta, "backend/model.joblib", b.val)
                 state == DictPop(self.dict, "_backend_model")
             IN  IF fail = "attributes.pkl"
                 THEN Raise("OSError", [self |-> self, files |-> files])
                 ELSE Ok([self |-> self,
                          files |-> [files EXCEPT ![Append(base_name, ".zip")] =
                                 Some(WriteFile(with_backend, "attributes.pkl", state))]])

\* save as it would be if the temporary directory were removed by a call at
\* the end of the block instead of by a context manager.
save_leaks_on_error(self, filepath, files, tmps, fail) ==
    LET name == TemporaryDirectory(tmps)
        r == save_body(self, splitext0(filepath), files, fail)
    IN  [exc |-> r.exc,
         val |-> [self |-> r.val.self, files |-> r.val.files,
                  tmps |-> IF r.exc = "ok" THEN cleanup(tmps \cup {name}, name)
                           ELSE tmps \cup {name}]]

\* save as it would be if it appended the archive extension to the path
\* as given, without removing the extension of the path first.
save_appends_zip(self, filepath, files, tmps, fail) ==
    LET name == TemporaryDirectory(tmps)
        r == save_body(self, filepath, files, fail)
    IN  [exc |-> r.exc,
         val |-> [self |-> r.val.self, files |-> r.val.files,
                  tmps |-> cleanup(tmps \cup {name}, name)]]

\* save: the exception raised, and the detector, the files and the temporary
\* directories afterwards.
save(self, filepath, files, tmps, fail) ==
    LET base_name == splitext0(filepath)
        name == TemporaryDirectory(tmps)
        r == save_body(self, base_name, files, fail)
    IN  [exc |-> r.exc,
         val |-> [self |-> r.val.self, files |-> r.val.files,
                  tmps |-> cleanup(tmps \cup {name}, name)]]

\* _load_backend(path); readable is whether joblib.load can read the file.
load_backend(self, tmp_dir, readable) ==
    IF "backend/model.joblib" \notin DOMAIN tmp_dir
    THEN Raise("FileNotFoundError", self)
    ELSE IF ~readable THEN Raise("UnpicklingError", self)
    ELSE Ok(SetAttr(self, "_backend_model", Some(tmp_dir["backend/model.joblib"])))

\* shutil.unpack_archive(filepath, tmp_dir): the format is taken from the
\* extension; the content of tmp_dir afterwards, or ReadError.
unpack_archive(files, filepath) ==
    IF filepath[Len(filepath)] # ".zip" \/ ~exists(files, filepath)
    THEN Raise("ReadError", EmptyDict)
    ELSE Ok(Val(files[filepath]))

\* The path load reads: lines 212-213.
probe(files, filepath) ==
    IF ~exists(files, filepath) /\ exists(files, Append(filepath, ".zip"))
    THEN Append(filepath, ".zip") ELSE filepath

\* The with-block of load as it would be if it restored the backend but not
\* the attributes.
load_body_backend_only(self, filepath, files, readable) ==
    LET u == unpack_archive(files, filepath) IN
    IF u.exc # "ok" THEN Raise(u.exc, self)
    ELSE LET lb == load_backend(self, u.val, readable) IN
         IF lb.exc # "ok" THEN lb
         ELSE Ok(SetAttr(lb.val, "_is_fitted", TRUE))

\* The with-block of load as it would be if it compared the class name
\* recorded in the metadata part with the class of the receiver.
load_body_checks_metadata(self, filepath, files, readable) ==
    LET u == unpack_archive(files, filepath) IN
    IF u.exc # "ok" THEN Raise(u.exc, self)
    ELSE IF "metadata.json" \notin DOMAIN u.val
    THEN Raise("FileNotFoundError", self)
    ELSE IF u.val["metadata.json"].class_name # self.cls
    THEN Raise("ConfigError", self)
    ELSE IF "attributes.pkl" \notin DOMAIN u.val
    THEN Raise("FileNotFoundError", self)
    ELSE LET updated == [self EXCEPT
                            !.dict = DictUpdate(@, u.val["attributes.pkl"])]
             lb == load_backend(updated, u.val, readable)
         IN  IF lb.exc # "ok" THEN lb
             ELSE Ok(SetAttr(lb.val, "_is_fitted", TRUE))

\* The with-block of load, lines 216-227.
load_body(self, filepath, files, readable) ==
    LET u == unpack_archive(files, filepath) IN
    IF u.exc # "ok" THEN Raise(u.exc, self)
    ELSE IF "attributes.pkl" \notin DOMAIN u.val
    THEN Raise("FileNotFoundError", self)
    ELSE LET updated == [self EXCEPT
                            !.dict = DictUpdate(@, u.val["attributes.pkl"])]
             lb == load_backend(updated, u.val, readable)
         IN  IF lb.exc # "ok" THEN lb
             ELSE Ok(SetAttr(lb.val, "_is_fitted", TRUE))

\* load as it would be if it always read the path it was given.
load_without_probe(self, filepath, files, tmps, readable) ==
    LET name == TemporaryDirectory(tmps)
        r == load_body(self, filepath, files, readable)
    IN  [exc |-> r.exc,
         val |-> [self |-> r.val, tmps |-> cleanup(tmps \cup {name}, name)]]

\* load: the exception raised, and the detector and the temporary
\* directories afterwards.
load(self, filepath, files, tmps, readable) ==
    LET path == probe(files, filepath)
        name == TemporaryDirectory(tmps)
        r == load_body(self, path, files, readable)
    IN  [exc |-> r.exc,
         val |-> [self |-> r.val, tmps |-> cleanup(tmps \cup {name}, name)]]

\* ------------------------------------------------ registry.py, __init__.py
Registry == [IsolationForest |-> "omniad.algos.tabular.iforest"]
\* list(d.keys())
RECURSIVE list(_)
list(S) ==
    IF S = {} THEN <<>>
    ELSE LET x == CHOOSE x \in S : TRUE IN <<x>> \o list(S \ {x})

\* f"{name}Adapter"
AdapterName(name) == IF name = "IsolationForest" THEN "IsolationForestAdapter" ELSE "?"

\* The classes importlib.import_module(module_path) finds in the module.
ModuleClasses(module_path) ==
    IF module_path = "omniad.algos.tabular.iforest"
    THEN {"IsolationForestAdapter"} ELSE {}

\* get_detector as it would be if it imported the module named after the
\* algorithm before looking the name up in the registry.
get_detector_import_first(name, kwargs, importable) ==
    LET class_name == AdapterName(name) IN
    IF ~importable \/ name \notin DOMAIN Registry
    THEN Raise("ImportError", <<name>>)
    ELSE Ok(New(class_name, kwargs))

\* get_detector: importable is whether the adapter module and its
\* dependencies can be imported.  A failure carries what its message names.
get_detector(name, kwargs, importable) ==
    IF name \notin DOMAIN Registry
    THEN Raise("ConfigError", list(DOMAIN Registry))
    ELSE LET module_path == Registry[name]
             class_name == AdapterName(name)
         IN  IF ~importable
             THEN Raise("ImportError", <<module_path>>)
             ELSE IF class_name \notin ModuleClasses(module_path)
             THEN Raise("AttributeError", <<module_path, class_name>>)
             ELSE Ok(New(class_name, kwargs))

\* ------------------------------------------------ the state machine
\* Constructor keyword arguments the callers use: the defaults, a contamination
\* outside [0,1], a forest size the backend rejects when fitting, a passthrough
\* override, a keyword next to the renamed hyperparameter, a valid
\* contamination, no contamination at all.
CtorArgs ==
    << EmptyDict,
       [contamination |-> 15],
       [n_estimators |-> 0],
       [n_estimators |-> 10, backend_options |-> [n_estimators |-> 7]],
       [n_trees |-> 5, n_estimators |-> 10],
       [contamination |-> 5],
       [contamination |-> 0] >>

\* The arguments used where detectors are also saved and loaded.
PersistArgs == {1, 2, 3}

AlgoNames == {"IsolationForest", "LOF"}
ThresholdArgs == {None, Some(0), Some(Scale)}

VARIABLES
    det,      \* the detector object the caller holds
    fs,       \* fs[p]: None, or Some(archive) stored at path p
    fresh,    \* TRUE until fit or load is first fresh on det
    saved,    \* the detector as it was when the last successful save began
    tmps,     \* the temporary directories that exist
    ret       \* the last call, see Return (for fit, info tells whether the
              \* detector was fitted when it was called)

vars == <<det, fs, fresh, saved, tmps, ret>>

\* What is known of the last call: the operation, the exception raised, the
\* scores or labels returned, and what the call was given or what its error
\* message names (a path, the registered names, the module).
Return(op, r, info) == [op |-> op, exc |-> r.exc, val |-> r.val, info |-> info]

Init ==
    /\ det = New("IsolationForestAdapter", EmptyDict)
    /\ fs = [p \in AllPaths |-> None]
    /\ fresh = TRUE
    /\ saved = None
    /\ tmps = {}
    /\ ret = Return("init", Ok(<<>>), <<>>)

GetDetector(name, i, importable) ==
    LET r == get_detector(name, CtorArgs[i], importable) IN
    /\ det' = IF r.exc = "ok" THEN r.val ELSE det
    /\ fresh' = IF r.exc = "ok" THEN TRUE ELSE fresh
    /\ ret' = Return("get_detector", Raise(r.exc, <<>>),
                     IF r.exc = "ok" THEN <<>> ELSE r.val)
    /\ UNCHANGED <<fs, saved, tmps>>

Construct(cls, i) ==
    /\ det' = New(cls, CtorArgs[i])
    /\ fresh' = TRUE
    /\ ret' = Return("construct", Ok(<<>>), <<>>)
    /\ UNCHANGED <<fs, saved, tmps>>

Fit(X) ==
    LET r == fit(det, X) IN
    /\ det' = r.val
    /\ fresh' = FALSE
    /\ ret' = Return("fit", Raise(r.exc, <<>>),
                     IF det.dict._is_fitted THEN <<"refit">> ELSE <<>>)
    /\ UNCHANGED <<fs, saved, tmps>>

PredictScore(X) ==
    /\ ret' = Return("predict_score", predict_score(det, X), <<>>)
    /\ UNCHANGED <<det, fs, fresh, saved, tmps>>

Predict(X, threshold) ==
    /\ ret' = Return("predict", predict(det, X, threshold), <<>>)
    /\ UNCHANGED <<det, fs, fresh, saved, tmps>>

BackendModel ==
    /\ ret' = Return("backend_model", Raise(backend_model(det).exc, <<>>), <<>>)
    /\ UNCHANGED <<det, fs, fresh, saved, tmps>>

Save(p, fail) ==
    LET r == save(det, p, fs, tmps, fail) IN
    /\ det' = r.val.self
    /\ fs' = r.val.files
    /\ tmps' = r.val.tmps
    /\ saved' = IF r.exc = "ok" THEN Some(det) ELSE saved
    /\ ret' = Return("save", Raise(r.exc, <<>>), p)
    /\ UNCHANGED fresh

Load(p, readable) ==
    LET r == load(det, p, fs, tmps, readable) IN
    /\ det' = r.val.self
    /\ tmps' = r.val.tmps
    /\ fresh' = FALSE
    /\ ret' = Return("load", Raise(r.exc, <<>>), p)
    /\ UNCHANGED <<fs, saved>>

\* Another program creates a file at a path where there is none: an archive
\* without members.
Touch(p) ==
    /\ fs[p] = None
    /\ fs' = [fs EXCEPT ![p] = Some(EmptyDict)]
    /\ ret' = Return("touch", Ok(<<>>), <<>>)
    /\ UNCHANGED <<det, fresh, saved, tmps>>

\* Another program removes one member from a complete archive.
DeleteMember(p, member) ==
    /\ fs[p] # None
    /\ DOMAIN Val(fs[p]) = Members
    /\ fs' = [fs EXCEPT ![p] = Some(DictPop(Val(fs[p]), member))]
    /\ ret' = Return("delete_member", Ok(<<>>), <<>>)
    /\ UNCHANGED <<det, fresh, saved, tmps>>

\* Detectors from the factory, fitted, queried, saved and loaded.
Next ==
    \/ \E name \in AlgoNames, i \in PersistArgs, importable \in BOOLEAN :
           GetDetector(name, i, importable)
    \/ \E X \in Inputs : Fit(X)
    \/ \E X \in Inputs : PredictScore(X)
    \/ \E X \in Inputs, t \in ThresholdArgs : Predict(X, t)
    \/ BackendModel
    \/ \E p \in UserPaths, fail \in SaveFailures : Save(p, fail)
    \/ \E p \in UserPaths, readable \in BOOLEAN : Load(p, readable)

Spec == Init /\ [][Next]_vars

\* Every adapter class with every constructor call, fitted and queried.
NextAdapters ==
    \/ \E name \in AlgoNames, i \in DOMAIN CtorArgs, importable \in BOOLEAN :
           GetDetector(name, i, importable)
    \/ \E cls \in Classes \ {"IsolationForestAdapter"}, i \in DOMAIN CtorArgs :
           Construct(cls, i)
    \/ \E X \in Inputs : Fit(X)
    \/ \E X \in Inputs : PredictScore(X)
    \/ \E X \in Inputs, t \in ThresholdArgs : Predict(X, t)
    \/ BackendModel

SpecAdapters == Init /\ [][NextAdapters]_vars

\* The arguments and the training inputs used where other programs write
\* files too: two data sets that give different models, and an invalid one.
FileArgs == {4, 6}
FileInputs == {<<0>>, <<0, 1>>, <<NaN>>}

\* Detectors of the two concrete classes saved and loaded, in a directory
\* other programs write to.
NextFiles ==
    \/ \E i \in FileArgs, importable \in BOOLEAN :
           GetDetector("IsolationForest", i, importable)
    \/ \E i \in FileArgs : Construct("BaseSklearnAdapter", i)
    \/ \E X \in FileInputs : Fit(X)
    \/ \E p \in UserPaths, fail \in SaveFailures : Save(p, fail)
    \/ \E p \in UserPaths, readable \in BOOLEAN : Load(p, readable)
    \/ Touch(<<Stem>>)
    \/ \E member \in Members : DeleteMember(ArchivePath, member)

SpecFiles == Init /\ [][NextFiles]_vars

\* Training sets in which one sample is more isolated than the others, next
\* to sets of equal samples and an invalid one.
TrainingInputs == {<<0>>, <<0, 1>>, <<0, 0, 1>>, <<1, 0, 0, 0>>, <<NaN>>}

\* The isolation forest with every constructor call, fitted on the training
\* sets and asked to label them.
NextTraining ==
    \/ \E i \in DOMAIN CtorArgs, importable \in BOOLEAN :
           GetDetector("IsolationForest", i, importable)
    \/ \E X \in TrainingInputs : Fit(X)
    \/ \E X \in TrainingInputs : Predict(X, None)

SpecTraining == Init /\ [][NextTraining]_vars

\* ------------------------------------------------ properties
IsFitted == det.dict._is_fitted
Threshold == det.dict.threshold_
Backend == det.dict._backend_model

\* C1: in every reachable state the fitted threshold is non-null exactly when
\* the fitted flag is true.
C1_ThresholdIffFitted == (Threshold # None) <=> IsFitted

\* C2: in every reachable state the backend handle is non-null exactly when
\* the fitted flag is true.
C2_BackendIffFitted == (Backend # None) <=> IsFitted

\* C3: a load whose backend restore step raises, on a detector whose fitted
\* flag was false, leaves the fitted flag false.
C3_FailedLoadStaysUnfitted ==
    [][(ret'.op = "load" /\ ret'.exc = "UnpicklingError" /\ ~IsFitted)
          => ~IsFitted']_vars

\* C4: a fit that raises leaves the fitted flag and the threshold exactly as
\* they were before the call.
C4_FailedFitKeepsFlagAndThreshold ==
    [][(ret'.op = "fit" /\ ret'.exc # "ok")
          => (IsFitted' = IsFitted /\ Threshold' = Threshold)]_vars

\* C4 witness: a fit that raised at its last step, the quantile, after the
\* backend had been built and fitted.
C4_Witness ==
    /\ ret.op = "fit" /\ ret.exc = "ValueError"
    /\ Backend # None /\ Val(Backend).fitted
    /\ ~IsFitted /\ Threshold = None

EffectiveThreshold(self, threshold) ==
    IF threshold = None THEN Val(self.dict.threshold_) ELSE Val(threshold)

\* C6: when predict returns on a fitted detector it returns one label in
\* {0,1} per sample, 1 exactly for the samples whose predict_score is strictly
\* above the supplied threshold (or the fitted one when none is supplied), and
\* leaves the detector as it was.
C6_PredictBinarizesStrictly ==
    [][(ret'.op = "predict" /\ ret'.exc = "ok") =>
          \A X \in Inputs, t \in ThresholdArgs :
             (validate_input(X).exc = "ok" /\ Predict(X, t))
                => /\ IsFitted
                   /\ DOMAIN ret'.val = DOMAIN X
                   /\ \A i \in DOMAIN X :
                         /\ ret'.val[i] \in {0, 1}
                         /\ ret'.val[i] = 1
                              <=> predict_score(det, X).val[i] > EffectiveThreshold(det, t)
                   /\ det' = det]_vars

\* C6 witness: predict returned on a fitted detector, flagging one sample
\* and not the other.
C6_Witness ==
    /\ ret.op = "predict" /\ ret.exc = "ok" /\ IsFitted
    /\ ret.val = <<1, 0>>

C8_SaveDoesNotMutate ==
    [][ret'.op = "save" => det' = det]_vars

\* C8 witness: a save that returned on a detector holding a backend.
C8_Witness ==
    /\ ret.op = "save" /\ ret.exc = "ok"
    /\ Backend # None /\ fs[ArchivePath] # None

\* The value the stated precedence gives backend parameter k: backend_options,
\* else the constructor keyword arguments, else the mapped attribute.
ClaimedParam(self, k) ==
    LET mapping == param_mapping(self.cls) IN
    IF k \in DOMAIN self.dict.backend_options THEN self.dict.backend_options[k]
    ELSE IF k \in DOMAIN self.dict.kwargs \ {"backend_options"} THEN self.dict.kwargs[k]
    ELSE self.dict[CHOOSE l \in DOMAIN mapping : mapping[l] = k]

\* C9: every constructor argument of the backend built by _fit_backend has the
\* value given by the precedence backend_options > keyword arguments > mapped
\* attribute.
C9_ParamPrecedence ==
    Backend # None =>
        \A k \in DOMAIN Val(Backend).params : Val(Backend).params[k] = ClaimedParam(det, k)

\* C10: predict_score of the isolation-forest adapter is, sample by sample,
\* the negation of the backend's decision_function.
C10_ScoreIsNegatedDecisionFunction ==
    [][(ret'.op = "predict_score" /\ ret'.exc = "ok" /\ det.cls = "IsolationForestAdapter") =>
          \A X \in Inputs :
             (validate_input(X).exc = "ok" /\ PredictScore(X))
                => ret'.val = Negate(decision_function(Val(Backend), validate_input(X).val).val)]_vars

C12_UnknownNameIsConfigError ==
    [][ret'.op = "get_detector" =>
          \A name \in AlgoNames \ DOMAIN Registry, i \in DOMAIN CtorArgs,
             importable \in BOOLEAN :
                GetDetector(name, i, importable)
                   => /\ ret'.exc = "ConfigError"
                      /\ {ret'.info[k] : k \in DOMAIN ret'.info} = DOMAIN Registry
                      /\ det' = det /\ fresh' = fresh]_vars

\* C12 witness: an unregistered name has just been refused while the caller
\* holds a fitted detector, which is still the detector it holds.
C12_Witness ==
    /\ ret.op = "get_detector" /\ ret.exc = "ConfigError"
    /\ ret.info = <<"IsolationForest">>
    /\ IsFitted /\ ~fresh

\* The keywords the isolation-forest adapter gives a meaning to: the names in
\* its signature, backend_options, and what the backend's constructor takes.
RecognisedKeywords ==
    {"n_estimators", "contamination", "n_jobs", "random_state", "backend_options"}
        \cup BackendParamNames

\* C13: get_detector never returns a detector that silently accepted a
\* constructor keyword the adapter does not recognise: when it returns, every
\* keyword the detector stored is a recognised one.
C13_UnknownKeywordRefused ==
    (ret.op = "get_detector" /\ ret.exc = "ok")
        => DOMAIN det.dict.kwargs \subseteq RecognisedKeywords

\* C14: once save or load has returned or raised, no temporary directory it
\* created exists any more, whatever the exit path; no sequence of calls
\* leaves one behind.
C14_NoTempDirLeft == tmps = {}

\* C14 witness: load has just raised on an archive without its attributes
\* part, after unpacking it into its temporary directory.
C14_Witness ==
    /\ ret.op = "load" /\ ret.exc = "FileNotFoundError"
    /\ fs[ArchivePath] # None
    /\ "attributes.pkl" \notin DOMAIN Val(fs[ArchivePath])
    /\ tmps = {}

\* The step restored the detector from the archive: the call returned, the
\* backend handle is the archive's backend part and every attribute of the
\* attributes part has its archived value (the fitted flag is set by load).
RestoredFrom(archive) ==
    /\ ret'.exc = "ok"
    /\ Backend' = Some(archive["backend/model.joblib"])
    /\ \A k \in DOMAIN archive["attributes.pkl"] \ {"_is_fitted"} :
          det'.dict[k] = archive["attributes.pkl"][k]

\* C15: load(path) with nothing at path and an archive at path + ".zip"
\* loads that archive; when something exists at path itself load reads path
\* and does not probe: it restores from path when path is an archive, and
\* raises, leaving the detector alone, when path has no archive extension.
C15_ProbesOnlyWhenPathMissing ==
    [][ret'.op = "load" =>
          \A readable \in BOOLEAN :
             Load(ret'.info, readable) =>
                LET path == ret'.info
                    zip == Append(path, ".zip")
                    complete(a) == {"attributes.pkl", "backend/model.joblib"} \subseteq DOMAIN a
                IN  /\ (fs[path] = None /\ fs[zip] # None /\ readable /\ complete(Val(fs[zip])))
                          => RestoredFrom(Val(fs[zip]))
                    /\ (fs[path] # None /\ path[Len(path)] # ".zip")
                          => (ret'.exc = "ReadError" /\ det' = det)
                    /\ (fs[path] # None /\ path[Len(path)] = ".zip" /\ readable
                            /\ complete(Val(fs[path])))
                          => RestoredFrom(Val(fs[path]))]_vars

\* C15 witness: load of the extension-less path has just restored the saved
\* detector from the archive at path + ".zip", nothing being at the path.
C15_Witness ==
    /\ ret.op = "load" /\ ret.exc = "ok" /\ ret.info = <<Stem>>
    /\ fs[<<Stem>>] = None /\ fs[ArchivePath] # None
    /\ saved # None /\ det = Val(saved)

\* C16: an archive save writes has all three parts, its attributes part being
\* every instance attribute but the backend handle and its backend part the
\* backend; a save that raises changes no file; save writes no other path.
C16_ArchiveCompleteOrNothing ==
    [][ret'.op = "save" =>
          LET dest == Append(splitext0(ret'.info), ".zip") IN
          /\ ret'.exc = "ok" =>
                /\ fs'[dest] # None
                /\ DOMAIN Val(fs'[dest]) = Members
                /\ Val(fs'[dest])["attributes.pkl"] = DictPop(det.dict, "_backend_model")
                /\ Val(fs'[dest])["backend/model.joblib"] = Val(Backend)
                /\ \A q \in AllPaths \ {dest} : fs'[q] = fs[q]
          /\ ret'.exc # "ok" => fs' = fs]_vars

\* C16 witness: a save has just raised while an archive written by an earlier
\* save of a different detector state is still complete at the destination.
C16_Witness ==
    /\ ret.op = "save" /\ ret.exc = "OSError" /\ Backend # None
    /\ fs[ArchivePath] # None
    /\ DOMAIN Val(fs[ArchivePath]) = Members
    /\ Val(fs[ArchivePath])["attributes.pkl"] # DictPop(det.dict, "_backend_model")

\* The detector with the three attributes fit assigns as the constructor
\* leaves them.
Unfitted(self) ==
    SetAttr(SetAttr(SetAttr(self, "_backend_model", None), "threshold_", None),
            "_is_fitted", FALSE)

\* C17: a successful fit(X) on a detector that is already fitted leaves it
\* exactly as a fresh detector of the same class, built with the same
\* constructor arguments and fitted once on X: a new backend trained on X, a
\* threshold from the scores of X only, hence the same predict_score.
C17_RefitReplacesState ==
    [][(ret'.op = "fit" /\ ret'.exc = "ok" /\ IsFitted) =>
          \A X \in Inputs :
             Fit(X) =>
                \E i \in DOMAIN CtorArgs :
                   /\ Unfitted(det) = New(det.cls, CtorArgs[i])
                   /\ det' = fit(New(det.cls, CtorArgs[i]), X).val
                   /\ \A Y \in Inputs :
                         predict_score(det', Y)
                            = predict_score(fit(New(det.cls, CtorArgs[i]), X).val, Y)]_vars

\* C17 witness: a fit on an already fitted detector has just returned, and
\* the detector holds a model of a different data set than the two samples
\* <<0, 1>> would give.
C17_Witness ==
    /\ ret.op = "fit" /\ ret.exc = "ok" /\ ret.info = <<"refit">>
    /\ IsFitted
    /\ Val(Backend).model # Train(<<0, 1>>)

\* The number of samples predict flags with the fitted threshold.
Flagged(self, X) ==
    LET labels == predict(self, X, None).val IN
    Cardinality({i \in DOMAIN labels : labels[i] = 1})

\* C18: after a successful fit on the n samples of X with contamination c the
\* threshold is the (1 - c) quantile of predict_score of X under the backend
\* just fitted; predict flags at most ceil(c * n) samples of X, and none when
\* c = 0.
C18_ThresholdIsTrainingQuantile ==
    [][(ret'.op = "fit" /\ ret'.exc = "ok") =>
          \A X \in TrainingInputs :
             Fit(X) =>
                LET c == det'.dict.contamination
                    n == Len(X)
                    scores == predict_score(det', X).val
                IN  /\ Threshold' = Some(quantile(scores, Scale - c).val)
                    /\ Flagged(det', X) <= (c * n + Scale - 1) \div Scale
                    /\ c = 0 => Flagged(det', X) = 0]_vars

\* C18 witness: a fit with contamination 0.1 on three samples has just
\* returned; predict flags exactly one of them, which is ceil(0.1 * 3).
C18_Witness ==
    /\ ret.op = "fit" /\ ret.exc = "ok"
    /\ det.dict.contamination = 1
    /\ Val(Backend).model = Train(<<0, 0, 1>>)
    /\ predict(det, <<0, 0, 1>>, None).val = <<0, 0, 1>>

\* C19: a fit that raises on a fitted detector leaves the backend handle the
\* backend of the last successful fit or load, so predict_score and predict
\* return what they returned before the call.
C19_FailedRefitKeepsBackend ==
    [][(ret'.op = "fit" /\ ret'.exc # "ok" /\ IsFitted) =>
          /\ Backend' = Backend
          /\ \A X \in Inputs :
                /\ predict_score(det', X) = predict_score(det, X)
                /\ \A t \in ThresholdArgs : predict(det', X, t) = predict(det, X, t)]_vars

\* C20: a load that returns leaves every wrapper attribute the saved detector
\* had (all but the backend handle and the fitted flag) with the value it had
\* at save time, whatever the receiver was; and load of an archive that has
\* its attributes and backend parts, the backend being readable, returns
\* whether or not the metadata part is there and whatever class it records.
C20_LoadOverwritesAndIgnoresMetadata ==
    [][ret'.op = "load" =>
          /\ ret'.exc = "ok" =>
                /\ saved # None
                /\ \A k \in DOMAIN Val(saved).dict \ {"_backend_model", "_is_fitted"} :
                      det'.dict[k] = Val(saved).dict[k]
          /\ \A readable \in BOOLEAN :
                (/\ Load(ret'.info, readable)
                 /\ readable
                 /\ ret'.info = ArchivePath
                 /\ fs[ArchivePath] # None
                 /\ {"attributes.pkl", "backend/model.joblib"}
                        \subseteq DOMAIN Val(fs[ArchivePath]))
                   => ret'.exc = "ok"]_vars

\* C20 witness: a load has just returned on a receiver of another class than
\* the saved detector's, from an archive without metadata part; the receiver
\* has the saved detector's contamination and constructor keywords.
C20_Witness ==
    /\ ret.op = "load" /\ ret.exc = "ok"
    /\ saved # None /\ det.cls # Val(saved).cls
    /\ "metadata.json" \notin DOMAIN Val(fs[ArchivePath])
    /\ det.dict.contamination = Val(saved).dict.contamination
    /\ det.dict.kwargs = Val(saved).dict.kwargs

\* C21: save on a detector that holds no backend handle never returns: it
\* raises ModelNotFittedError (unless writing the metadata part, which comes
\* first, has already failed), writes no file and leaves the detector as it
\* was; so a save that returns was called with a backend handle.
C21_SaveNeedsBackend ==
    [][(ret'.op = "save" /\ Backend = None) =>
          /\ ret'.exc # "ok"
          /\ \A fail \in SaveFailures \ {"metadata.json"} :
                Save(ret'.info, fail) => ret'.exc = "ModelNotFittedError"
          /\ fs' = fs
          /\ det' = det]_vars

\* C21 witness: save has just raised ModelNotFittedError on a detector whose
\* only fit failed before a backend was built, and the archive an earlier
\* detector saved is still there.
C21_Witness ==
    /\ ret.op = "save" /\ ret.exc = "ModelNotFittedError"
    /\ Backend = None /\ ~fresh /\ ~IsFitted
    /\ fs[ArchivePath] # None

\* C22: a save that returns has written the archive at its path with the
\* final extension removed and ".zip" appended, and nowhere else: at the path
\* itself only when the path ends in ".zip", and nothing is created at a path
\* with another extension; a load with the same string right after it finds
\* an archive only if the path has no extension or the extension ".zip".
C22_SaveReplacesExtension ==
    [][/\ (ret'.op = "save" /\ ret'.exc = "ok") =>
             LET path == ret'.info
                 n == Len(path)
                 dest == IF n > 1 THEN Append(SubSeq(path, 1, n - 1), ".zip")
                         ELSE Append(path, ".zip")
             IN  /\ fs'[dest] # None
                 /\ DOMAIN Val(fs'[dest]) = Members
                 /\ \A q \in AllPaths \ {dest} : fs'[q] = fs[q]
                 /\ dest = path <=> path[n] = ".zip"
       /\ (/\ ret.op = "save" /\ ret.exc = "ok"
           /\ ret'.op = "load" /\ ret'.info = ret.info
           /\ ret'.exc # "ReadError")
             => (Len(ret.info) = 1 \/ ret.info[Len(ret.info)] = ".zip")]_vars

\* C22 witness: save("m.pkl") has just returned; there is nothing at "m.pkl",
\* the archive is at "m.zip", and load("m.pkl") would raise ReadError.
C22_Witness ==
    /\ ret.op = "save" /\ ret.exc = "ok" /\ ret.info = <<Stem, ".pkl">>
    /\ fs[<<Stem, ".pkl">>] = None
    /\ fs[<<Stem, ".pkl", ".zip">>] = None
    /\ fs[ArchivePath] # None
    /\ load(det, ret.info, fs, tmps, TRUE).exc = "ReadError"

====
